---- MODULE Spec2Model ----
(***************************************************************************)
(* The accessibility-audit batch service of index.js: the POST /runaudit   *)
(* handler, the lighthouse child process it awaits, the report file the    *)
(* two exchange, and the AI analysis step.                                 *)
(*                                                                         *)
(* JavaScript values are tagged records, so that property reads, optional  *)
(* chaining, truthiness and strict equality can be computed the way the    *)
(* engine computes them.  Strings are sequences of tokens.  Numbers are    *)
(* decimal thousandths, with the binary64 rounding deviation (in ulps) of  *)
(* the one multiplication the handler performs kept beside them.           *)
(***************************************************************************)
EXTENDS Integers, Sequences, FiniteSets, TLC

VARIABLES
    pc,        \* per request: where the async handler is suspended
    body,      \* per request: req.body as received
    idx,       \* per request: 1-based position of the for..of iterator
    jsonFile,  \* per request: the report path of the current iteration
    wrote,     \* per request: the current child process has written its report
    cur,       \* per request: locals of the iteration alive across the AI await
    results,   \* per request: the results array
    res,       \* per request: the HTTP response sent, if any
    exit,      \* per request: exit code of the current child process
    log,       \* per request: history of the steps taken, as <<event, position>>
    fs         \* the output directory: path -> file content

vars == <<pc, body, idx, jsonFile, wrote, exit, cur, results, res, log, fs>>

----------------------------------------------------------------------------
(* Bounds of the model *)

MaxUrls == 2        \* longest urls array of a request, one request at a time
MaxRaceUrls == 1    \* longest urls array when two requests overlap
MaxAudits == 3      \* most checks in a report whose rendering is examined

----------------------------------------------------------------------------
(* JavaScript values *)

Undefined == [kind |-> "undefined"]
Null == [kind |-> "null"]
NaN == [kind |-> "number", nan |-> TRUE, milli |-> 0, off |-> 0]
Num(m) == [kind |-> "number", nan |-> FALSE, milli |-> m, off |-> 0]
Str(toks) == [kind |-> "string", toks |-> toks]
Arr(elems) == [kind |-> "array", elems |-> elems]
Obj(order, fields) == [kind |-> "object", order |-> order, fields |-> fields]
EmptyObj == Obj(<<>>, <<>>)
\* the completion of an expression that threw
Throw == [kind |-> "throw"]

IsNullish(v) == v.kind \in {"undefined", "null"}

\* v.f : a TypeError on undefined/null, the own property of an object, the
\* length of an array or string, undefined otherwise
Get(v, f) ==
    CASE IsNullish(v) \/ v.kind = "throw" -> Throw
      [] v.kind = "object" -> IF f \in DOMAIN v.fields THEN v.fields[f] ELSE Undefined
      [] v.kind = "array" -> IF f = "length" THEN Num(1000 * Len(v.elems)) ELSE Undefined
      [] v.kind = "string" -> IF f = "length" THEN Num(1000 * Len(v.toks)) ELSE Undefined
      [] OTHER -> Undefined

\* v?.f
OptGet(v, f) == IF IsNullish(v) THEN Undefined ELSE Get(v, f)

\* v[0]
First(v) ==
    CASE IsNullish(v) \/ v.kind = "throw" -> Throw
      [] v.kind = "array" -> IF Len(v.elems) >= 1 THEN v.elems[1] ELSE Undefined
      [] OTHER -> Undefined

\* ToBoolean(v)
Truthy(v) ==
    CASE v.kind \in {"undefined", "null", "throw"} -> FALSE
      [] v.kind = "number" -> ~v.nan /\ ~(v.milli = 0 /\ v.off = 0)
      [] v.kind = "string" -> v.toks # <<>>
      [] OTHER -> TRUE

\* a || b
OrElse(a, b) == IF a.kind = "throw" THEN Throw ELSE IF Truthy(a) THEN a ELSE b

\* Object.values(v), in the object's enumeration order
ObjectValues(v) ==
    CASE IsNullish(v) \/ v.kind = "throw" -> Throw
      [] v.kind = "object" -> Arr([i \in 1..Len(v.order) |-> v.fields[v.order[i]]])
      [] v.kind = "array" -> v
      [] OTHER -> Arr(<<>>)

\* Array.prototype.join on an array of token strings
RECURSIVE Join(_, _)
Join(ss, sep) ==
    IF ss = <<>> THEN <<>>
    ELSE IF Len(ss) = 1 THEN Head(ss)
    ELSE Head(ss) \o <<sep>> \o Join(Tail(ss), sep)

\* JSON.stringify(v, null, 2), as tokens
RECURSIVE Stringify(_)
Stringify(v) ==
    CASE v.kind = "string" -> <<"\"">> \o v.toks \o <<"\"">>
      [] v.kind = "number" -> IF v.nan THEN <<"null">> ELSE <<ToString(v.milli), "e-3">>
      [] v.kind = "null" -> <<"null">>
      [] v.kind = "array" ->
            <<"[">> \o Join([i \in 1..Len(v.elems) |-> Stringify(v.elems[i])], ",") \o <<"]">>
      [] v.kind = "object" ->
            LET shown == SelectSeq(v.order, LAMBDA k : v.fields[k].kind # "undefined")
            IN <<"{">>
               \o Join([i \in 1..Len(shown) |->
                          <<shown[i], ":">> \o Stringify(v.fields[shown[i]])], ",")
               \o <<"}">>
      [] OTHER -> <<>>

----------------------------------------------------------------------------
(* Numbers: report.categories.accessibility?.score * 100 || 0 *)

\* the ulps by which the binary64 product with 100 of a report score (in
\* thousandths) misses the decimal product, for the scores of ScoreValues:
\* 0.07 * 100 = 7.000000000000001, 0.57 * 100 = 56.99999999999999
ProductOff(m) == CASE m = 70 -> 1 [] m = 570 -> -1 [] OTHER -> 0

\* v * 100 : ToNumber(undefined) is NaN, ToNumber(null) is 0
Times100(v) ==
    CASE v.kind = "throw" -> Throw
      [] v.kind = "undefined" -> NaN
      [] v.kind = "null" -> Num(0)
      [] v.kind = "number" ->
            IF v.nan THEN NaN
            ELSE [kind |-> "number", nan |-> FALSE, milli |-> v.milli * 100,
                  off |-> ProductOff(v.milli)]
      [] OTHER -> NaN

Score(report) ==
    OrElse(Times100(OptGet(Get(Get(report, "categories"), "accessibility"), "score")),
           Num(0))

----------------------------------------------------------------------------
(* Issue extraction and rendering *)

\* a === 0
StrictZero(v) == v.kind = "number" /\ ~v.nan /\ v.milli = 0 /\ v.off = 0

\* the filter written with a falsy test, !audit.score
IsFailingLoose(audit) == ~Truthy(Get(audit, "score"))

\* audit.score === 0
IsFailing(audit) == StrictZero(Get(audit, "score"))

\* audit.details?.items?.map((item) => JSON.stringify(item, null, 2)) || []
DetailsOf(audit) ==
    LET details == Get(audit, "details")
        items == OptGet(details, "items")
        mapped == CASE IsNullish(items) -> Undefined
                    [] items.kind = "array" ->
                         Arr([i \in 1..Len(items.elems) |-> Str(Stringify(items.elems[i]))])
                    [] OTHER -> Throw
    IN OrElse(mapped, Arr(<<>>))

MakeIssue(audit) ==
    Obj(<<"id", "title", "description", "details">>,
        [id |-> Get(audit, "id"), title |-> Get(audit, "title"),
         description |-> Get(audit, "description"), details |-> DetailsOf(audit)])

\* Object.values(report.audits).filter(...).map(...)
Issues(report) ==
    LET vals == ObjectValues(Get(report, "audits"))
    IN IF vals.kind = "throw" \/ \E i \in 1..Len(vals.elems) : IsNullish(vals.elems[i])
       THEN Throw
       ELSE LET kept == SelectSeq(vals.elems, IsFailing)
                made == [i \in 1..Len(kept) |-> MakeIssue(kept[i])]
            IN IF \E i \in 1..Len(made) : made[i].fields.details.kind = "throw"
               THEN Throw ELSE Arr(made)

DetailsHeader == "\n  Details:\n"

\* item?.node?.snippet || JSON.stringify(item, null, 2)
Snippet(item) == OrElse(OptGet(OptGet(item, "node"), "snippet"), Str(Stringify(item)))

\* the text of one issue, serial = i + 1
RenderIssue(issue, serial) ==
    LET title == OrElse(Get(issue, "title"), Str(<<"No title">>))
        description == OrElse(Get(issue, "description"), Str(<<"No description">>))
        items == OptGet(Get(issue, "details"), "items")
        detailsText ==
            IF Truthy(OptGet(items, "length"))
            THEN <<DetailsHeader>>
                 \o Join([j \in 1..Len(items.elems) |->
                            <<"    [", ToString(j), "]: ">> \o Snippet(items.elems[j]).toks],
                         "\n")
            ELSE <<>>
    IN <<"[", ToString(serial), "]: ">> \o title.toks \o <<" - ">> \o description.toks
       \o detailsText

\* issues.map(...).join("\n\n")
IssuesText(issues) ==
    Str(Join([i \in 1..Len(issues.elems) |-> RenderIssue(issues.elems[i], i)], "\n\n"))

----------------------------------------------------------------------------
(* The AI analysis step *)

AI_FAILED == Str(<<"AI analysis failed.">>)

\* the two code-fence markers of the replace pattern, as tokens
FenceHtml == "<fence>html"
Fence == "<fence>"

\* result.replace(/<fence>html|<fence>/g, "") : every marker, anywhere; a
\* TypeError when result is no string
StripFences(v) ==
    IF v.kind = "string"
    THEN Str(SelectSeq(v.toks, LAMBDA t : t \notin {FenceHtml, Fence}))
    ELSE Throw

\* data.candidates[0]?.content?.parts[0]?.text : a nullish link ends the whole
\* chain with undefined, a missing parts under a present content throws
FirstText(data) ==
    LET c0 == First(Get(data, "candidates"))
    IN IF c0.kind = "throw" THEN Throw
       ELSE IF IsNullish(c0) THEN Undefined
       ELSE LET content == Get(c0, "content")
            IN IF IsNullish(content) THEN Undefined
               ELSE LET p0 == First(Get(content, "parts"))
                    IN IF p0.kind = "throw" THEN Throw
                       ELSE IF IsNullish(p0) THEN Undefined
                       ELSE Get(p0, "text")

\* the body of the try block, for the outcome o of the fetch
AnalyzeTry(o) ==
    IF o.net = "reject" THEN Throw
    ELSE IF ~o.ok THEN Throw
    ELSE IF o.json.kind = "malformed" THEN Throw
    ELSE StripFences(OrElse(FirstText(o.json), AI_FAILED))

\* the function without its catch block
analyzeWithAI_NoCatch(o) == AnalyzeTry(o)

analyzeWithAI(o) ==
    LET r == AnalyzeTry(o) IN IF r.kind = "throw" THEN AI_FAILED ELSE r

----------------------------------------------------------------------------
(* Report paths *)

Schemes == {"http://", "https://"}

\* s.replace(/https?:\/\//, "") : the first match only, wherever it is
RECURSIVE StripFirstScheme(_)
StripFirstScheme(toks) ==
    IF toks = <<>> THEN <<>>
    ELSE IF Head(toks) \in Schemes THEN Tail(toks)
    ELSE <<Head(toks)>> \o StripFirstScheme(Tail(toks))

\* s.replace(/\//g, "_")
SlashesToUnderscores(toks) == [i \in 1..Len(toks) |-> IF toks[i] = "/" THEN "_" ELSE toks[i]]

\* url.replace(...).replace(...) : a TypeError when url is no string
Filename(url) ==
    IF url.kind = "string"
    THEN Str(SlashesToUnderscores(StripFirstScheme(url.toks)))
    ELSE Throw

\* rootPath + "public/lighthouse-reports"
outputDir == "<cwd>public/lighthouse-reports"

\* path.join(outputDir, filename + ".json")
JsonFile(url) ==
    LET filename == Filename(url)
    IN IF filename.kind = "throw" THEN Throw
       ELSE Str(<<outputDir, "/">> \o filename.toks \o <<".json">>)

----------------------------------------------------------------------------
(* Files of the output directory *)

Malformed == [kind |-> "malformed"]
Missing == [by |-> 0, data |-> [kind |-> "missing"]]
\* what child process `by` left at a path
Written(by, data) == [by |-> by, data |-> data]

\* JSON.parse(fs.readFileSync(jsonFile, "utf-8"))
ParseFile(c) == IF c.data.kind \in {"missing", "malformed"} THEN Throw ELSE c.data

----------------------------------------------------------------------------
(* The request handler *)

testInputs ==
    Obj(<<"urls">>,
        [urls |-> Arr(<<Str(<<"https://", "workspace.google.com", "/", "intl", "/", "en_au",
                             "/", "lp", "/", "gmail-au", "/", "index.html">>),
                        Str(<<"https://", "workspace.google.com", "/", "intl", "/", "en_in",
                             "/", "lp", "/", "gmail-in", "/", "index.html">>),
                        Str(<<"https://", "workspace.google.com", "/", "intl", "/", "es_ALL",
                             "/">>)>>)])

\* const { urls, apiKey } = req.body || testInputs
Input(b) == IF Truthy(b) THEN b ELSE testInputs

\* the two checks taken in the opposite order
ValidateKeyFirst(b) ==
    LET urls == Get(Input(b), "urls")
        apiKey == Get(Input(b), "apiKey")
    IN IF ~Truthy(apiKey) THEN "apiKey"
       ELSE IF ~Truthy(urls) \/ urls.kind # "array" THEN "urls"
       ELSE "ok"

\* which check of the handler rejects the body, if any
Validate(b) ==
    LET urls == Get(Input(b), "urls")
        apiKey == Get(Input(b), "apiKey")
    IN IF ~Truthy(urls) \/ urls.kind # "array" THEN "urls"
       ELSE IF ~Truthy(apiKey) THEN "apiKey"
       ELSE "ok"

ErrorUrls == Obj(<<"error">>, [error |-> Str(<<"Invalid input: urls">>)])
ErrorApiKey == Obj(<<"error">>, [error |-> Str(<<"Invalid input: apiKey is required">>)])
NoResponse == [status |-> 0, json |-> Undefined]
Response(status, json) == [status |-> status, json |-> json]

\* the urls array and the key of a request that passed validation
Urls(b) == Get(Input(b), "urls").elems
ApiKey(b) == Get(Input(b), "apiKey")

\* no fetch outcome yet
Pending == [net |-> "none", ok |-> FALSE, json |-> Undefined]

\* by: the child process whose write the parsed report is (history)
NoCur == [report |-> Undefined, by |-> 0, score |-> Undefined, issues |-> Undefined,
          issuesText |-> Undefined, prompt |-> Undefined, apiKey |-> Undefined,
          outcome |-> Pending, aiFixes |-> Undefined]

Event(ev, k) == <<ev, k>>

\* results.unshift(record)
PushFront(rs, record) == <<record>> \o rs

\* results.push(record)
Push(rs, record) == Append(rs, record)

\* the exec callback settling the promise whatever the error argument is
ExecResultIgnoreError(code) == "resolve"

\* exec callback: if (error) reject(error) else resolve()
ExecResult(code) == IF code # 0 THEN "reject" ELSE "resolve"

\* the skip of passing reports enabled: if (score >= 90) continue
SkipPassingEnabled(score) == ~score.nan /\ score.milli >= 90000

\* // if (score >= 90) continue;   (commented out)
SkipPassing(score) == FALSE

Init ==
    /\ pc = [r \in {1, 2} |-> "idle"]
    /\ body = [r \in {1, 2} |-> Undefined]
    /\ idx = [r \in {1, 2} |-> 0]
    /\ jsonFile = [r \in {1, 2} |-> Undefined]
    /\ wrote = [r \in {1, 2} |-> FALSE]
    /\ exit = [r \in {1, 2} |-> 0]
    /\ cur = [r \in {1, 2} |-> NoCur]
    /\ results = [r \in {1, 2} |-> <<>>]
    /\ res = [r \in {1, 2} |-> NoResponse]
    /\ log = [r \in {1, 2} |-> <<>>]
    /\ fs = [p \in {} |-> Missing]

\* the file at a path, Missing when no process has written there
FileAt(p) == IF p \in DOMAIN fs THEN fs[p] ELSE Missing

\* the head of the for..of loop at position i, entered with results rs and
\* history lg: the response when the array is exhausted, else the path
\* derivation and the spawn of the audit process for urls[i]
Iterate(r, us, i, rs, lg) ==
    /\ idx' = [idx EXCEPT ![r] = i]
    /\ results' = [results EXCEPT ![r] = rs]
    /\ IF i > Len(us)
       THEN /\ pc' = [pc EXCEPT ![r] = "responded"]
            /\ res' = [res EXCEPT ![r] = Response(200, Obj(<<"results">>, [results |-> Arr(rs)]))]
            /\ log' = [log EXCEPT ![r] = Append(lg, Event("respond", i - 1))]
            /\ UNCHANGED <<jsonFile, wrote>>
       ELSE IF JsonFile(us[i]).kind = "throw"
       THEN /\ pc' = [pc EXCEPT ![r] = "rejected"]
            /\ log' = [log EXCEPT ![r] = Append(lg, Event("throw", i))]
            /\ UNCHANGED <<res, jsonFile, wrote>>
       ELSE /\ pc' = [pc EXCEPT ![r] = "audit"]
            /\ jsonFile' = [jsonFile EXCEPT ![r] = JsonFile(us[i])]
            /\ wrote' = [wrote EXCEPT ![r] = FALSE]
            /\ log' = [log EXCEPT ![r] = Append(lg, Event("auditStart", i))]
            /\ UNCHANGED res

\* app.post("/runaudit") up to its first await.  The method test of the handler
\* is never true on a POST route.  pc "rejected" is the handler's promise
\* rejected: nothing catches it and no response is ever written.
PostRunaudit(r, b) ==
    /\ pc[r] = "idle"
    /\ body' = [body EXCEPT ![r] = b]
    /\ UNCHANGED <<exit, cur, fs>>
    /\ IF Validate(b) = "ok"
       THEN Iterate(r, Urls(b), 1, <<>>, log[r])
       ELSE /\ pc' = [pc EXCEPT ![r] = "responded"]
            /\ res' = [res EXCEPT ![r] =
                         Response(400, IF Validate(b) = "urls" THEN ErrorUrls ELSE ErrorApiKey)]
            /\ log' = [log EXCEPT ![r] = Append(log[r], Event("respond400", 0))]
            /\ UNCHANGED <<idx, jsonFile, wrote, results>>

\* the write held back while another request is between the write of its audit
\* of the same path and its read of the report
LighthouseWriteLocked(r, reports) ==
    /\ pc[r] = "audit"
    /\ ~wrote[r]
    /\ \A q \in DOMAIN pc \ {r} :
          ~(pc[q] \in {"audit", "exited"} /\ wrote[q] /\ jsonFile[q] = jsonFile[r])
    /\ \E data \in reports :
          fs' = [p \in DOMAIN fs \cup {jsonFile[r]} |->
                   IF p = jsonFile[r] THEN Written(r, data) ELSE fs[p]]
    /\ wrote' = [wrote EXCEPT ![r] = TRUE]
    /\ UNCHANGED <<pc, body, idx, jsonFile, exit, cur, results, res, log>>

\* the audit process writes its report, one of reports, to --output-path
LighthouseWrite(r, reports) ==
    /\ pc[r] = "audit"
    /\ ~wrote[r]
    /\ \E data \in reports :
          fs' = [p \in DOMAIN fs \cup {jsonFile[r]} |->
                   IF p = jsonFile[r] THEN Written(r, data) ELSE fs[p]]
    /\ wrote' = [wrote EXCEPT ![r] = TRUE]
    /\ UNCHANGED <<pc, body, idx, jsonFile, exit, cur, results, res, log>>

\* the audit process ends; its exec callback is queued
LighthouseExit(r, code) ==
    /\ pc[r] = "audit"
    /\ pc' = [pc EXCEPT ![r] = "exited"]
    /\ exit' = [exit EXCEPT ![r] = code]
    /\ log' = [log EXCEPT ![r] = Append(log[r], Event("auditExit", idx[r]))]
    /\ UNCHANGED <<body, idx, jsonFile, wrote, cur, results, res, fs>>

\* the promise of runLighthouse settling before the process has ended
CallbackReadyEarly(r) == pc[r] \in {"audit", "exited"}

\* runLighthouse settles in the exec callback, once the process has ended
CallbackReady(r) == pc[r] = "exited"

\* the exec callback and the handler's continuation after await runLighthouse:
\* read and parse the report, score, issues, text, and the fetch of the AI step
ExecCallback(r) ==
    /\ CallbackReady(r)
    /\ UNCHANGED <<body, exit, fs>>
    /\ LET report == ParseFile(FileAt(jsonFile[r]))
           score == Score(report)
           issues == Issues(report)
       IN IF ExecResult(exit[r]) = "reject"
             \/ report.kind = "throw" \/ score.kind = "throw" \/ issues.kind = "throw"
          THEN /\ pc' = [pc EXCEPT ![r] = "rejected"]
               /\ log' = [log EXCEPT ![r] = Append(log[r], Event("throw", idx[r]))]
               /\ UNCHANGED <<idx, jsonFile, wrote, cur, results, res>>
          ELSE IF SkipPassing(score)
          THEN /\ cur' = [cur EXCEPT ![r] = [NoCur EXCEPT !.report = report, !.score = score,
                                                       !.by = FileAt(jsonFile[r]).by]]
               /\ Iterate(r, Urls(body[r]), idx[r] + 1, results[r],
                          Append(log[r], Event("read", idx[r])))
          ELSE /\ pc' = [pc EXCEPT ![r] = "fetch"]
               /\ cur' = [cur EXCEPT ![r] =
                            [NoCur EXCEPT !.report = report, !.score = score,
                                          !.by = FileAt(jsonFile[r]).by,
                                          !.issues = issues,
                                          !.issuesText = IssuesText(issues),
                                          !.prompt = IssuesText(issues),
                                          !.apiKey = ApiKey(body[r])]]
               /\ log' = [log EXCEPT ![r] =
                            log[r] \o <<Event("read", idx[r]), Event("aiCall", idx[r])>>]
               /\ UNCHANGED <<idx, jsonFile, wrote, results, res>>

\* the fetch of analyzeWithAI settles with outcome o; the handler's
\* continuation appends the record and enters the next iteration
FetchSettle(r, o) ==
    /\ pc[r] = "fetch"
    /\ UNCHANGED <<body, exit, fs>>
    /\ LET aiFixes == analyzeWithAI(o)
           record == Obj(<<"url", "score", "issues", "aiFixes">>,
                         [url |-> Urls(body[r])[idx[r]], score |-> cur[r].score,
                          issues |-> cur[r].issuesText, aiFixes |-> aiFixes])
       IN /\ cur' = [cur EXCEPT ![r] = [@ EXCEPT !.outcome = o, !.aiFixes = aiFixes]]
          /\ IF aiFixes.kind = "throw"
             THEN /\ pc' = [pc EXCEPT ![r] = "rejected"]
                  /\ log' = [log EXCEPT ![r] = Append(log[r], Event("throw", idx[r]))]
                  /\ UNCHANGED <<idx, jsonFile, wrote, results, res>>
             ELSE Iterate(r, Urls(body[r]), idx[r] + 1, Push(results[r], record),
                          log[r] \o <<Event("aiReturn", idx[r]), Event("push", idx[r])>>)

----------------------------------------------------------------------------
(* Inputs: request bodies, reports the audit tool may write, fetch outcomes *)

U1 == Str(<<"https://", "a.com", "/", "x">>)
U3 == Str(<<"https://", "example.com">>)
NotAString == Num(42000)
Key == Str(<<"k">>)

SeqsUpTo(S, n) == UNION {[1..k -> S] : k \in 0..n}

ValidBody(us, key) == Obj(<<"urls", "apiKey">>, [urls |-> Arr(us), apiKey |-> key])

Bodies ==
    {Undefined, EmptyObj,
     Obj(<<"apiKey">>, [apiKey |-> Key]),
     Obj(<<"urls", "apiKey">>, [urls |-> Str(<<"https://", "a.com">>), apiKey |-> Key]),
     Obj(<<"urls", "apiKey">>, [urls |-> Null, apiKey |-> Key])}
    \cup {ValidBody(us, key) : us \in SeqsUpTo({U1, U3, NotAString}, MaxUrls),
                               key \in {Undefined, Str(<<>>), Key}}

RenderBodies == {ValidBody(<<U1>>, Key)}

RaceBodies == {ValidBody(us, Key) : us \in SeqsUpTo({U1, U3}, MaxRaceUrls) \ {<<>>}}

ItemSnip == Obj(<<"node">>, [node |-> Obj(<<"snippet">>, [snippet |-> Str(<<"<img src=a.png>">>)])])
ItemPlain == Obj(<<"url">>, [url |-> Str(<<"a.png">>)])

Audit(id, score, title, description, details) ==
    Obj(<<"id", "title", "description", "score", "details">>,
        [id |-> Str(<<id>>), title |-> title, description |-> description,
         score |-> score, details |-> details])

Items(items) == Obj(<<"type", "items">>, [type |-> Str(<<"table">>), items |-> Arr(items)])

FailPlain == Audit("image-alt", Num(0), Str(<<"Image elements must have alternate text">>),
                   Str(<<"Informative elements need alt text">>), Undefined)
FailOne == Audit("label", Num(0), Str(<<"Form elements must have labels">>),
                 Str(<<"Labels help screen readers">>), Items(<<ItemSnip>>))
FailTwo == Audit("link-name", Num(0), Str(<<"Links must have a name">>),
                 Str(<<"Link text helps navigation">>), Items(<<ItemSnip, ItemPlain>>))
FailBare == Audit("bare", Num(0), Undefined, Undefined, Items(<<>>))
Half == Audit("contrast", Num(500), Str(<<"Contrast">>), Str(<<"Partly passing">>),
              Items(<<ItemSnip>>))
NullScore == Audit("manual", Null, Str(<<"Manual check">>), Str(<<"Not scored">>),
                   Obj(<<"type">>, [type |-> Str(<<"table">>)]))
NoScore == Audit("unscored", Undefined, Str(<<"Unscored">>), Str(<<"No score">>), Undefined)
Pass == Audit("lang", Num(1000), Str(<<"Page has a lang">>), Str(<<"Passing">>), Undefined)

AuditSet == {FailPlain, FailOne, FailTwo, FailBare, Half, NullScore, NoScore, Pass}

\* report.audits: check id -> check, enumerated in the order given
AuditsObj(as) ==
    Obj([i \in 1..Len(as) |-> ToString(i)],
        [k \in {ToString(i) : i \in 1..Len(as)} |->
            as[CHOOSE i \in 1..Len(as) : ToString(i) = k]])

ScoreValues == {0, 70, 500, 570, 760, 765, 900, 1000}

Category(score) == Obj(<<"accessibility">>,
                       [accessibility |-> Obj(<<"id", "score">>,
                                              [id |-> Str(<<"accessibility">>), score |-> score])])

CategoryVariants ==
    {Undefined, EmptyObj, Category(Undefined), Category(Null)}
    \cup {Category(Num(m)) : m \in ScoreValues}

Report(categories, audits) ==
    Obj(<<"categories", "audits">>, [categories |-> categories, audits |-> audits])

R90 == Report(Category(Num(900)), AuditsObj(<<FailPlain>>))
RPass == Report(Category(Num(1000)), AuditsObj(<<Pass>>))
RNoCategories == Report(Undefined, AuditsObj(<<FailPlain>>))

\* what one audit run may leave in the report file
FileData == {Malformed, RNoCategories, R90, RPass}

RenderFileData ==
    {Report(c, AuditsObj(as)) : c \in CategoryVariants, as \in SeqsUpTo(AuditSet, MaxAudits)}
    \cup {Report(Category(Num(900)), Undefined)}

RaceFileData == {R90}

ExitCodes == {0, 1}

\* outcomes of the fetch of the generation endpoint
Rejected == [net |-> "reject", ok |-> FALSE, json |-> Undefined]
Answer(ok, json) == [net |-> "resolve", ok |-> ok, json |-> json]
Candidates(cs) == Obj(<<"candidates">>, [candidates |-> cs])
Content(content) == Candidates(Arr(<<Obj(<<"content">>, [content |-> content])>>))
Parts(ps) == Content(Obj(<<"parts">>, [parts |-> ps]))
Text(t) == Parts(Arr(<<Obj(<<"text">>, [text |-> t])>>))
FencedAnswer == Text(Str(<<FenceHtml, "<div class=issue-card>", Fence>>))

Outcomes ==
    {Rejected,
     Answer(FALSE, Obj(<<"error">>, [error |-> Obj(<<"message">>, [message |-> Str(<<"quota">>)])])),
     Answer(FALSE, Malformed),
     Answer(TRUE, Malformed),
     Answer(TRUE, Null),
     Answer(TRUE, EmptyObj),
     Answer(TRUE, Candidates(Arr(<<>>))),
     Answer(TRUE, Content(Undefined)),
     Answer(TRUE, Content(EmptyObj)),
     Answer(TRUE, Parts(Arr(<<>>))),
     Answer(TRUE, Text(Undefined)),
     Answer(TRUE, Text(Str(<<>>))),
     Answer(TRUE, Text(Num(5000))),
     Answer(TRUE, FencedAnswer)}

RenderOutcomes == {Answer(TRUE, FencedAnswer)}

RaceOutcomes == {Rejected, Answer(TRUE, FencedAnswer)}

----------------------------------------------------------------------------
(* Specifications *)

\* one request at a time, any body, any fetch outcome
Next ==
    \E r \in {1} :
        \/ \E b \in Bodies : PostRunaudit(r, b)
        \/ LighthouseWrite(r, FileData)
        \/ \E code \in ExitCodes : LighthouseExit(r, code)
        \/ ExecCallback(r)
        \/ \E o \in Outcomes : FetchSettle(r, o)

Spec == Init /\ [][Next]_vars

\* one request, one URL, any report
NextRender ==
    \E r \in {1} :
        \/ \E b \in RenderBodies : PostRunaudit(r, b)
        \/ LighthouseWrite(r, RenderFileData)
        \/ \E code \in ExitCodes : LighthouseExit(r, code)
        \/ ExecCallback(r)
        \/ \E o \in RenderOutcomes : FetchSettle(r, o)

SpecRender == Init /\ [][NextRender]_vars

\* two requests in flight in the one server process
NextRace ==
    \E r \in {1, 2} :
        \/ \E b \in RaceBodies : PostRunaudit(r, b)
        \/ LighthouseWrite(r, RaceFileData)
        \/ \E code \in ExitCodes : LighthouseExit(r, code)
        \/ ExecCallback(r)
        \/ \E o \in RaceOutcomes : FetchSettle(r, o)

SpecRace == Init /\ [][NextRace]_vars

----------------------------------------------------------------------------
(* Properties *)

Requests == DOMAIN pc

Received(r) == pc[r] # "idle"
Accepted(r) == Received(r) /\ res[r].status # 400
InLog(r, e) == \E j \in 1..Len(log[r]) : log[r][j] = e
Times(r, e) == Cardinality({j \in 1..Len(log[r]) : log[r][j] = e})

\* C1: for a request with an array urls and a non-empty apiKey, results is at
\* every moment the records of the first URLs of urls, one per URL and in
\* input order, and the 200 response carries one record per input URL, with
\* results[i].url = urls[i] for all i.
C1_ResultsFollowUrls ==
    \A r \in Requests :
        Accepted(r) =>
            /\ Len(results[r]) <= Len(Urls(body[r]))
            /\ \A i \in 1..Len(results[r]) : results[r][i].fields.url = Urls(body[r])[i]
            /\ pc[r] \in {"audit", "exited", "fetch", "rejected"} => Len(results[r]) = idx[r] - 1
            /\ res[r].status = 200 =>
                  /\ res[r].json.fields.results = Arr(results[r])
                  /\ Len(results[r]) = Len(Urls(body[r]))

C1_Witness ==
    /\ res[1].status = 200
    /\ Urls(body[1]) = <<U1, U3>>
    /\ Len(res[1].json.fields.results.elems) = 2

\* the audit of the current URL failed: non-zero exit, or a report file that
\* cannot be read or parsed
AuditFailed(r) ==
    /\ pc[r] = "exited"
    /\ exit[r] # 0 \/ FileAt(jsonFile[r]).data.kind \in {"missing", "malformed"}

\* C2: when the audit process of URL k fails or its report cannot be read or
\* parsed, the handler's next step aborts the batch; in an aborted batch the AI
\* step was not invoked for URL k, no URL after k was audited, no response was
\* sent, and nothing of that ever changes afterwards.
C2_FailureAbortsBatch ==
    /\ [][\A r \in Requests : AuditFailed(r) /\ pc'[r] # pc[r] => pc'[r] = "rejected"]_vars
    /\ [](\A r \in Requests :
            pc[r] = "rejected" =>
                /\ res[r] = NoResponse
                /\ ~InLog(r, Event("aiCall", idx[r]))
                /\ \A k \in (idx[r] + 1)..Len(Urls(body[r])) : ~InLog(r, Event("auditStart", k))
                /\ Len(results[r]) = idx[r] - 1)
    /\ [][\A r \in Requests :
            pc[r] = "rejected" =>
                /\ pc'[r] = "rejected" /\ res'[r] = res[r]
                /\ log'[r] = log[r] /\ results'[r] = results[r]]_vars

C2_Witness ==
    /\ pc[1] = "rejected"
    /\ exit[1] # 0
    /\ idx[1] = 1
    /\ Len(Urls(body[1])) = 2
    /\ wrote[1]

Settled(r) == cur[r].outcome.net # "none"

\* a fetch outcome that is no generated text: network error, non-success
\* status, unparsable body, or a body without a non-empty text string
IsErrorOutcome(o) ==
    \/ o.net = "reject"
    \/ ~o.ok
    \/ o.json.kind = "malformed"
    \/ FirstText(o.json).kind # "string"
    \/ FirstText(o.json) = Str(<<>>)

\* C3: whatever the outcome of the generation-endpoint call, analyzeWithAI
\* returns a string, exactly "AI analysis failed." on every error outcome; the
\* record of that URL is appended with it and the batch goes on to the next
\* URL, or to the 200 response with one record per URL after the last one.
C3_AiStepNeverFails ==
    \A r \in Requests :
        Settled(r) =>
            /\ cur[r].aiFixes.kind = "string"
            /\ IsErrorOutcome(cur[r].outcome) => cur[r].aiFixes = AI_FAILED
            /\ Len(results[r]) = idx[r] - 1
            /\ idx[r] >= 2
            /\ results[r][idx[r] - 1].fields.aiFixes = cur[r].aiFixes
            /\ IF idx[r] > Len(Urls(body[r]))
               THEN /\ res[r].status = 200
                    /\ Len(res[r].json.fields.results.elems) = Len(Urls(body[r]))
               ELSE InLog(r, Event("auditStart", idx[r])) \/ InLog(r, Event("throw", idx[r]))

C3_Witness ==
    /\ res[1].status = 200
    /\ Len(results[1]) = 2
    /\ \A i \in 1..2 : results[1][i].fields.aiFixes = AI_FAILED
    /\ cur[1].outcome = Answer(FALSE, Malformed)

\* C4: a body whose urls is missing or no array is answered 400 with the urls
\* error payload; one with an array urls and no apiKey is answered 400 with the
\* apiKey error payload, which is a different payload; a request answered 400
\* has started no audit process, read no report and made no AI call.
C4_ValidationRejects ==
    \A r \in Requests :
        Received(r) =>
            LET urls == Get(Input(body[r]), "urls")
                apiKey == Get(Input(body[r]), "apiKey")
            IN /\ urls.kind # "array" => res[r] = Response(400, ErrorUrls)
               /\ urls.kind = "array" /\ apiKey.kind = "undefined" =>
                     res[r] = Response(400, ErrorApiKey)
               /\ ErrorUrls # ErrorApiKey
               /\ res[r].status = 400 =>
                     /\ log[r] = <<Event("respond400", 0)>>
                     /\ pc[r] = "responded"
                     /\ results[r] = <<>> /\ cur[r] = NoCur /\ ~wrote[r]
                     /\ jsonFile[r] = Undefined
                     /\ \A p \in DOMAIN fs : fs[p].by # r

C4_Witness ==
    /\ res[1] = Response(400, ErrorApiKey)
    /\ Get(body[1], "urls") = Arr(<<U1, U3>>)
    /\ Get(body[1], "apiKey") = Undefined

\* the checks of a parsed report, in the report's enumeration order
ChecksOf(report) ==
    LET audits == report.fields.audits
    IN [i \in 1..Len(audits.order) |-> audits.fields[audits.order[i]]]

\* the checks whose score is the number 0
ZeroScored(report) == SelectSeq(ChecksOf(report), LAMBDA a : a.fields.score = Num(0))

\* the serial numbers of the rendered text: the token between "[" and "]: "
Serials(toks) ==
    LET at == SelectSeq([p \in 1..Len(toks) |-> p],
                        LAMBDA p : toks[p] = "[" /\ p + 2 <= Len(toks) /\ toks[p + 2] = "]: ")
    IN [j \in 1..Len(at) |-> toks[at[j] + 1]]

\* C5: the issues of a report are exactly its checks whose score is exactly 0
\* (a check scored 0.5, null, 1 or unscored yields none), in the report's
\* enumeration order, and the rendered text numbers them 1..n in that order.
C5_IssuesAreZeroScoredChecks ==
    \A r \in Requests :
        pc[r] = "fetch" =>
            LET zero == ZeroScored(cur[r].report)
                issues == cur[r].issues.elems
            IN /\ Len(issues) = Len(zero)
               /\ \A j \in 1..Len(issues) :
                     /\ issues[j].fields.id = zero[j].fields.id
                     /\ issues[j].fields.title = zero[j].fields.title
               /\ Serials(cur[r].issuesText.toks) = [j \in 1..Len(zero) |-> ToString(j)]

C5_Witness ==
    /\ pc[1] = "fetch"
    /\ ChecksOf(cur[1].report) = <<NullScore, FailTwo>>
    /\ Len(cur[1].issues.elems) = 1
    /\ Serials(cur[1].issuesText.toks) = <<"1">>

\* the detail items of a check
RECURSIVE SumLen(_)
SumLen(ss) == IF ss = <<>> THEN 0 ELSE Len(Head(ss)) + SumLen(Tail(ss))

ItemsOf(check) ==
    IF check.fields.details.kind = "object" /\ "items" \in DOMAIN check.fields.details.fields
    THEN check.fields.details.fields.items.elems
    ELSE <<>>

Occurrences(toks, t) == Cardinality({p \in 1..Len(toks) : toks[p] = t})

\* C6: in the rendered text every issue whose check has at least one detail
\* item carries a "Details:" block with one indexed line per detail item, and
\* an issue without detail items carries none.
C6_DetailsRendered ==
    \A r \in Requests :
        pc[r] = "fetch" =>
            LET zero == ZeroScored(cur[r].report)
                withItems == SelectSeq(zero, LAMBDA a : ItemsOf(a) # <<>>)
                text == cur[r].issuesText.toks
            IN /\ Occurrences(text, DetailsHeader) = Len(withItems)
               /\ Occurrences(text, "    [") = SumLen([j \in 1..Len(zero) |-> ItemsOf(zero[j])])

\* C7: every URL whose report was read and parsed has the AI step invoked
\* exactly once, with the text rendered from that report, whatever the score;
\* a report without issues renders to the empty string and the AI step is
\* invoked with it.
C7_AiInvokedOncePerReport ==
    \A r \in Requests :
        /\ \A k \in 1..MaxUrls + 1 :
              /\ InLog(r, Event("read", k)) => Times(r, Event("aiCall", k)) = 1
              /\ Times(r, Event("aiCall", k)) <= 1
        /\ pc[r] = "fetch" =>
              /\ cur[r].prompt = IssuesText(Issues(cur[r].report))
              /\ cur[r].apiKey = ApiKey(body[r])
              /\ ZeroScored(cur[r].report) = <<>> => cur[r].prompt = Str(<<>>)

C7_Witness ==
    /\ pc[1] = "fetch"
    /\ cur[1].score = Num(100000)
    /\ ZeroScored(cur[1].report) = <<>>
    /\ cur[1].prompt = Str(<<>>)
    /\ Times(1, Event("aiCall", 2)) = 1

\* Math.round of a number kept as thousandths and ulps
Rounded(v) ==
    IF v.milli % 1000 = 500 /\ v.off < 0
    THEN v.milli - 500
    ELSE ((v.milli + 500) \div 1000) * 1000

\* C8: the score of a record is round(report accessibility score * 100), an
\* integer in [0,100] for report scores in [0,1], and 0 when the category
\* score is absent or the product is falsy.
C8_ScoreIsRoundedPercent ==
    \A r \in Requests :
        pc[r] = "fetch" =>
            LET accessibility == Get(Get(cur[r].report, "categories"), "accessibility")
                raw == OptGet(accessibility, "score")
                score == cur[r].score
            IN /\ score.kind = "number" /\ ~score.nan
               /\ score.off = 0 /\ score.milli % 1000 = 0
               /\ 0 <= score.milli /\ score.milli <= 100000
               /\ raw.kind = "number" =>
                     score.milli = Rounded([milli |-> raw.milli * 100, off |-> ProductOff(raw.milli)])
               /\ raw.kind # "number" => score = Num(0)

Phases == <<"auditStart", "auditExit", "read", "aiCall", "aiReturn", "push">>

\* C9: within one batch the steps are strictly sequential: for URL 1, then URL
\* 2, and so on, the audit process starts, ends, the report is read, the AI
\* call is made, returns, and the record is appended; nothing of URL k + 1
\* precedes the record of URL k, and the 200 response comes after the record
\* of the last URL.
C9_StrictlySequential ==
    \A r \in Requests :
        Accepted(r) =>
            /\ \A j \in 1..Len(log[r]) :
                  \/ log[r][j] = Event(Phases[((j - 1) % 6) + 1], ((j - 1) \div 6) + 1)
                  \/ /\ j = Len(log[r])
                     /\ \/ log[r][j][1] = "throw"
                        \/ /\ log[r][j] = Event("respond", Len(Urls(body[r])))
                           /\ j = 6 * Len(Urls(body[r])) + 1
            /\ res[r].status = 200 => log[r][Len(log[r])][1] = "respond"

C9_Witness ==
    /\ res[1].status = 200
    /\ Len(Urls(body[1])) = 2
    /\ Len(log[1]) = 13
    /\ log[1][7] = Event("auditStart", 2)
    /\ log[1][6] = Event("push", 1)

\* C10: two requests auditing the same URL derive the same report path, and
\* there is no locking: while one request has its report written and not yet
\* read, the audit process of the other is free to overwrite the file, so a
\* request comes to read a report that the other request's audit wrote.
C10_SharedPathNoLock ==
    \A r \in Requests : \A q \in Requests \ {r} :
        /\ ( /\ pc[r] \in {"audit", "exited"} /\ pc[q] \in {"audit", "exited"}
             /\ Urls(body[r])[idx[r]] = Urls(body[q])[idx[q]] )
           => jsonFile[r] = jsonFile[q]
        /\ ( /\ pc[r] \in {"audit", "exited"} /\ wrote[r]
             /\ pc[q] = "audit" /\ ~wrote[q]
             /\ jsonFile[q] = jsonFile[r] )
           => ENABLED LighthouseWrite(q, RaceFileData)

C10_Witness ==
    /\ pc[1] = "fetch"
    /\ wrote[1]
    /\ cur[1].by = 2
    /\ Urls(body[1]) = Urls(body[2])
    /\ pc[2] \in {"audit", "exited"}

====
